---- MODULE Spec2Model ----
(***************************************************************************)
(* osmium::Timestamp (include/osmium/osm/timestamp.hpp): the parser of     *)
(* "yyyy-mm-ddThh:mm:ssZ", the formatter to_iso(), the comparison          *)
(* operators, the sentinels start_of_time()/end_of_time() and the seeds of *)
(* the min/max reductions.                                                 *)
(*                                                                         *)
(* Representation of numbers.  TLC's integers are 32 bit signed, and the   *)
(* values of the program are not: m_timestamp is a uint32_t and time_t is  *)
(* a 64 bit signed integer.  So                                            *)
(*   - a uint32_t is held as its two 16 bit halves, [hi, lo], the value    *)
(*     being hi * 65536 + lo;                                              *)
(*   - a time_t is held as [days, secs] with secs in 0..86399, the value   *)
(*     being days * 86400 + secs (days may be negative).                   *)
(* The conversions between the two are exact (86400 = 675 * 128).          *)
(* A text is a sequence of character codes (ASCII), without the            *)
(* terminating NUL, which CharAt supplies.                                 *)
(***************************************************************************)
EXTENDS Integers, Sequences, FiniteSets

VARIABLES
    str,          \* the text handed to Timestamp(const char*), <<>> if none
    m_timestamp,  \* the instance's uint32_t, or NoTimestamp (not constructed)
    thrown,       \* the last constructor call threw std::invalid_argument
    ret,          \* what the last operation returned (NoRet: nothing, or not used)
    rhs_str,      \* the text the last operation's right-hand side was parsed from
    rhs,          \* the right-hand Timestamp of the last operation, if it had one
    min_acc,      \* running minimum, seeded by min_op_start_value<Timestamp>()
    max_acc,      \* running maximum, seeded by max_op_start_value<Timestamp>()
    folded,       \* the Timestamps folded into the accumulators, in order
    last_op,      \* the operation that made this state
    n_ops         \* operator+= and operator-= calls made on the instance so far

vars == <<str, m_timestamp, thrown, ret, rhs_str, rhs,
          min_acc, max_acc, folded, last_op, n_ops>>

(***************************************************************************)
(* Characters                                                              *)
(***************************************************************************)
NUL == 0
ChZero == 48
ChNine == 57
ChDash == 45
ChT == 84
ChColon == 58
ChZ == 90

\* str[i] of a C string: the characters, then the terminating NUL.  The
\* parser's && chain stops at the first character that does not fit, and NUL
\* fits no position, so nothing past the NUL is ever read.
CharAt(s, i) == IF i < Len(s) THEN s[i + 1] ELSE NUL

\* str[i] >= '0' && str[i] <= '9'
IsDigit(s, i) == CharAt(s, i) >= ChZero /\ CharAt(s, i) <= ChNine

\* str[i] - '0'
DigitVal(s, i) == CharAt(s, i) - ChZero

(***************************************************************************)
(* uint32_t and time_t                                                     *)
(***************************************************************************)
Half == 65536
SecsPerDay == 86400

U32(h, l) == [hi |-> h, lo |-> l]

\* uint32_t(n) of an int n >= 0
U32OfInt(n) == U32(n \div Half, n % Half)

\* std::numeric_limits<uint32_t>::max()
UINT32_MAX == U32(Half - 1, Half - 1)

TimeT(d, s) == [days |-> d, secs |-> s]

\* faulty variant: the narrowing to 31 bits, the positive range of an int32_t
U32OfTimeT_31bit(t) ==
    LET q == (t.days * 675 + t.secs \div 128) % 16777216
        r == t.secs % 128
    IN  [hi |-> q \div 512, lo |-> (q % 512) * 128 + r]

\* static_cast<uint32_t>(time_t): the value modulo 2^32.  With
\* t = days * 86400 + secs = (days * 675 + secs \div 128) * 128 + secs % 128,
\* t mod 2^32 = ((days * 675 + secs \div 128) mod 2^25) * 128 + secs % 128.
U32OfTimeT(t) ==
    LET q == (t.days * 675 + t.secs \div 128) % 33554432
        r == t.secs % 128
    IN  U32(q \div 512, (q % 512) * 128 + r)

\* time_t(m_timestamp): the same value, never negative
TimeTOfU32(u) ==
    LET q == u.hi * 512 + u.lo \div 128
        r == u.lo % 128
    IN  TimeT(q \div 675, (q % 675) * 128 + r)

\* uint32_t arithmetic of operator+= and operator-=, modulo 2^32; d is the
\* time difference as a uint32_t
U32Add(u, d) ==
    LET l == u.lo + d.lo
        h == u.hi + d.hi + l \div Half
    IN  U32(h % Half, l % Half)

U32Sub(u, d) ==
    LET l == u.lo - d.lo
        h == u.hi - d.hi + l \div Half
    IN  U32(h % Half, l % Half)

(***************************************************************************)
(* libc: timegm, gmtime_r, strftime                                        *)
(***************************************************************************)
\* __isleap(year)
isleap(year) == year % 4 = 0 /\ (year % 100 # 0 \/ year % 400 = 0)

\* __mon_yday[leap][mon]: days before month mon (0-based)
mon_yday(leap, mon) ==
    IF leap
    THEN <<0, 31, 60, 91, 121, 152, 182, 213, 244, 274, 305, 335, 366>>[mon + 1]
    ELSE <<0, 31, 59, 90, 120, 151, 181, 212, 243, 273, 304, 334, 365>>[mon + 1]

\* faulty variant: the leap days without the years divisible by 400
leaps_thru_end_of_no400(y) == y \div 4 - y \div 100

\* leap days up to the end of year y: LEAPS_THRU_END_OF(y)
leaps_thru_end_of(y) == y \div 4 - y \div 100 + y \div 400

\* timegm(&tm) for tm_mon in 0..11: seconds from the epoch to the broken-down
\* UTC time, out-of-range tm_mday and tm_sec carried over; no leap seconds.
timegm(tm) ==
    LET year == tm.tm_year + 1900
        yday == mon_yday(isleap(year), tm.tm_mon) + tm.tm_mday - 1
        d    == 365 * (year - 1970)
                  + leaps_thru_end_of(year - 1) - leaps_thru_end_of(1969)
                  + yday
        s    == tm.tm_hour * 3600 + tm.tm_min * 60 + tm.tm_sec
    IN  TimeT(d + s \div SecsPerDay, s % SecsPerDay)

\* the year loop of gmtime_r (__offtime): from a guess y and the days left
\* since the first of January of y, to the year the day lies in
RECURSIVE offtime_year(_, _)
offtime_year(y, d) ==
    IF d < 0 \/ d >= (IF isleap(y) THEN 366 ELSE 365)
    THEN LET yg == y + d \div 365
         IN  offtime_year(yg, d - ((yg - y) * 365
                                    + leaps_thru_end_of(yg - 1)
                                    - leaps_thru_end_of(y - 1)))
    ELSE [year |-> y, yday |-> d]

\* gmtime_r(&sse, &tm)
gmtime_r(sse) ==
    LET yd   == offtime_year(1970, sse.days)
        leap == isleap(yd.year)
        mon  == CHOOSE m \in 0..11 :
                    mon_yday(leap, m) <= yd.yday /\ yd.yday < mon_yday(leap, m + 1)
    IN  [tm_year |-> yd.year - 1900,
         tm_mon  |-> mon,
         tm_mday |-> yd.yday - mon_yday(leap, mon) + 1,
         tm_hour |-> sse.secs \div 3600,
         tm_min  |-> (sse.secs % 3600) \div 60,
         tm_sec  |-> sse.secs % 60]

\* a number in decimal, at least `width` digits, zero padded
RECURSIVE Decimal(_, _)
Decimal(n, width) ==
    IF n < 10 /\ width <= 1
    THEN <<ChZero + n>>
    ELSE Append(Decimal(n \div 10, width - 1), ChZero + (n % 10))

\* faulty variant: %m printed from tm_mon as it is, 0-based
strftime_text_month_from_zero(tm) ==
    Decimal(tm.tm_year + 1900, 1) \o <<ChDash>> \o
    Decimal(tm.tm_mon, 2) \o <<ChDash>> \o
    Decimal(tm.tm_mday, 2) \o <<ChT>> \o
    Decimal(tm.tm_hour, 2) \o <<ChColon>> \o
    Decimal(tm.tm_min, 2) \o <<ChColon>> \o
    Decimal(tm.tm_sec, 2) \o <<ChZ>>

\* what "%Y-%m-%dT%H:%M:%SZ" expands to (%Y: the year, not padded)
strftime_text(tm) ==
    Decimal(tm.tm_year + 1900, 1) \o <<ChDash>> \o
    Decimal(tm.tm_mon + 1, 2) \o <<ChDash>> \o
    Decimal(tm.tm_mday, 2) \o <<ChT>> \o
    Decimal(tm.tm_hour, 2) \o <<ChColon>> \o
    Decimal(tm.tm_min, 2) \o <<ChColon>> \o
    Decimal(tm.tm_sec, 2) \o <<ChZ>>

\* strftime(buf, max, format, &tm): the bytes written and their number, 0 when
\* the text and its terminating NUL do not fit into max bytes
strftime(max, tm) ==
    LET text == strftime_text(tm)
    IN  IF Len(text) + 1 <= max
        THEN [n |-> Len(text), buf |-> text]
        ELSE [n |-> 0, buf |-> <<>>]

(***************************************************************************)
(* detail::parse_timestamp                                                 *)
(***************************************************************************)
\* faulty variant: February with 28 days
mon_lengths_feb28 == <<31, 28, 31, 30, 31, 30, 31, 31, 30, 31, 30, 31>>

mon_lengths == <<31, 29, 31, 30, 31, 30, 31, 31, 30, 31, 30, 31>>

\* the first condition: the shape of the first 20 characters
shape_ok(s) ==
    /\ IsDigit(s, 0) /\ IsDigit(s, 1) /\ IsDigit(s, 2) /\ IsDigit(s, 3)
    /\ CharAt(s, 4) = ChDash
    /\ IsDigit(s, 5) /\ IsDigit(s, 6)
    /\ CharAt(s, 7) = ChDash
    /\ IsDigit(s, 8) /\ IsDigit(s, 9)
    /\ CharAt(s, 10) = ChT
    /\ IsDigit(s, 11) /\ IsDigit(s, 12)
    /\ CharAt(s, 13) = ChColon
    /\ IsDigit(s, 14) /\ IsDigit(s, 15)
    /\ CharAt(s, 16) = ChColon
    /\ IsDigit(s, 17) /\ IsDigit(s, 18)
    /\ CharAt(s, 19) = ChZ

\* faulty variant: tm_mon without the "- 1"
parse_tm_month_from_one(s) ==
    [tm_year |-> DigitVal(s, 0) * 1000 + DigitVal(s, 1) * 100
                   + DigitVal(s, 2) * 10 + DigitVal(s, 3) - 1900,
     tm_mon  |-> DigitVal(s, 5) * 10 + DigitVal(s, 6),
     tm_mday |-> DigitVal(s, 8) * 10 + DigitVal(s, 9),
     tm_hour |-> DigitVal(s, 11) * 10 + DigitVal(s, 12),
     tm_min  |-> DigitVal(s, 14) * 10 + DigitVal(s, 15),
     tm_sec  |-> DigitVal(s, 17) * 10 + DigitVal(s, 18)]

\* struct tm tm{} as filled from the digits
parse_tm(s) ==
    [tm_year |-> DigitVal(s, 0) * 1000 + DigitVal(s, 1) * 100
                   + DigitVal(s, 2) * 10 + DigitVal(s, 3) - 1900,
     tm_mon  |-> DigitVal(s, 5) * 10 + DigitVal(s, 6) - 1,
     tm_mday |-> DigitVal(s, 8) * 10 + DigitVal(s, 9),
     tm_hour |-> DigitVal(s, 11) * 10 + DigitVal(s, 12),
     tm_min  |-> DigitVal(s, 14) * 10 + DigitVal(s, 15),
     tm_sec  |-> DigitVal(s, 17) * 10 + DigitVal(s, 18)]

\* the second condition: the ranges of the fields
tm_in_range(tm) ==
    /\ tm.tm_year >= 0
    /\ tm.tm_mon >= 0 /\ tm.tm_mon <= 11
    /\ tm.tm_mday >= 1 /\ tm.tm_mday <= mon_lengths[tm.tm_mon + 1]
    /\ tm.tm_hour >= 0 /\ tm.tm_hour <= 23
    /\ tm.tm_min >= 0 /\ tm.tm_min <= 59
    /\ tm.tm_sec >= 0 /\ tm.tm_sec <= 60

\* parse_timestamp(str): the time_t returned, or the throw
parse_timestamp(s) ==
    IF shape_ok(s) /\ tm_in_range(parse_tm(s))
    THEN [threw |-> FALSE, value |-> timegm(parse_tm(s))]
    ELSE [threw |-> TRUE]

(***************************************************************************)
(* class Timestamp                                                         *)
(***************************************************************************)
NoTimestamp == [hi |-> -1, lo |-> -1]

\* faulty variant: no room for the terminating NUL
timestamp_length_no_nul == 20 + 0

timestamp_length == 21

\* Timestamp::to_iso() of an instance holding m
to_iso(m) ==
    IF m # U32(0, 0)
    THEN LET tm == gmtime_r(TimeTOfU32(m))
             r  == strftime(timestamp_length, tm)
         IN  SubSeq(r.buf, 1, r.n)
    ELSE <<>>

\* Timestamp::valid()
valid(m) == m # U32(0, 0)

start_of_time == U32OfInt(1)

end_of_time == UINT32_MAX

\* faulty variant: the two seeds swapped
min_op_start_value_swapped == start_of_time

min_op_start_value == end_of_time

max_op_start_value == start_of_time

\* operator==, operator<, and the four derived from them
op_eq(l, r) == l = r

\* faulty variant: the comparison of the values as int32_t
op_lt_signed(l, r) ==
    LET sl == IF l.hi >= 32768 THEN l.hi - 65536 ELSE l.hi
        sr == IF r.hi >= 32768 THEN r.hi - 65536 ELSE r.hi
    IN  sl < sr \/ (sl = sr /\ l.lo < r.lo)

op_lt(l, r) == l.hi < r.hi \/ (l.hi = r.hi /\ l.lo < r.lo)

op_ne(l, r) == ~op_eq(l, r)

op_gt(l, r) == op_lt(r, l)

op_le(l, r) == ~op_lt(r, l)

op_ge(l, r) == ~op_lt(l, r)

\* the m_timestamp of Timestamp(s), for a text s the parser accepts
TimestampOf(s) == U32OfTimeT(parse_timestamp(s).value)

\* the six comparison operators on (l, r)
comparisons(l, r) ==
    [eq |-> op_eq(l, r), ne |-> op_ne(l, r), lt |-> op_lt(l, r),
     gt |-> op_gt(l, r), le |-> op_le(l, r), ge |-> op_ge(l, r)]

(***************************************************************************)
(* Inputs                                                                  *)
(***************************************************************************)
MaxTrail == 2
MaxOps == 2
MaxFold == 3
DayWindow == 2

\* the text yyyy-mm-ddThh:mm:ssZ of six numbers
MkText(y, mo, d, h, mi, s) ==
    Decimal(y, 4) \o <<ChDash>> \o Decimal(mo, 2) \o <<ChDash>> \o
    Decimal(d, 2) \o <<ChT>> \o Decimal(h, 2) \o <<ChColon>> \o
    Decimal(mi, 2) \o <<ChColon>> \o Decimal(s, 2) \o <<ChZ>>

\* s with the character at position i (0-based) replaced by c
ReplaceAt(s, i, c) == [k \in 1..Len(s) |-> IF k = i + 1 THEN c ELSE s[k]]

RECURSIVE SeqsUpTo(_, _)
SeqsUpTo(S, n) ==
    IF n = 0 THEN {<<>>}
    ELSE LET shorter == SeqsUpTo(S, n - 1)
         IN  shorter \cup {Append(q, c) : q \in shorter, c \in S}

BaseText == MkText(2015, 1, 1, 0, 0, 0)

\* every combination of boundary values of the six fields
FieldTexts ==
    {MkText(y, mo, d, h, mi, s) :
        y \in {0, 1899, 1900, 1969, 1970, 2000, 2015, 2016, 2100, 2106, 2107, 9999},
        mo \in {0, 1, 2, 3, 4, 12, 13},
        d \in {0, 1, 28, 29, 30, 31, 32},
        h \in {0, 23, 24},
        mi \in {0, 59, 60},
        s \in {0, 59, 60, 61}}

LiteralTexts ==
    {MkText(2016, 7, 25, 9, 30, 0), MkText(1970, 1, 1, 0, 0, 1),
     MkText(2106, 2, 7, 6, 28, 15), MkText(2106, 2, 7, 6, 28, 16),
     MkText(2016, 13, 1, 0, 0, 0), MkText(2038, 1, 19, 3, 14, 8),
     ReplaceAt(ReplaceAt(BaseText, 4, 47), 7, 47)}

\* one wrong character ('/', ' ', '-', ':', 'A', 'T', 'Z', 'z', '0', '9') at
\* one position; cut short; with characters after the 20
MalformedTexts ==
    {ReplaceAt(BaseText, i, c) :
        i \in 0..19, c \in {47, 32, 45, 58, 65, 84, 90, 122, 48, 57}}
    \cup {SubSeq(BaseText, 1, n) : n \in 0..19}
    \cup {BaseText \o tail : tail \in SeqsUpTo({90, 48, 32}, MaxTrail)}

ParseTexts == FieldTexts \cup LiteralTexts \cup MalformedTexts

\* accepted texts around the epoch, the leap days, 2^31 and 2^32 seconds
ChronTexts ==
    {MkText(1900, 1, 1, 0, 0, 0), MkText(1969, 12, 31, 23, 59, 59),
     MkText(1970, 1, 1, 0, 0, 0), MkText(1970, 1, 1, 0, 0, 1),
     MkText(1970, 1, 1, 0, 0, 60), MkText(1970, 1, 1, 0, 1, 0),
     MkText(2015, 2, 28, 23, 59, 59), MkText(2015, 2, 29, 12, 0, 0),
     MkText(2015, 3, 1, 0, 0, 0), MkText(2016, 2, 29, 12, 0, 0),
     MkText(2016, 3, 1, 0, 0, 0), MkText(2016, 7, 25, 9, 30, 0),
     MkText(2038, 1, 19, 3, 14, 7), MkText(2038, 1, 19, 3, 14, 8),
     MkText(2100, 2, 29, 0, 0, 0), MkText(2100, 3, 1, 0, 0, 0),
     MkText(2106, 2, 7, 6, 28, 15), MkText(2106, 2, 7, 6, 28, 16),
     MkText(2107, 1, 1, 0, 0, 0), MkText(9999, 12, 31, 23, 59, 59)}

LifeTexts == {<<>>, MkText(2016, 7, 25, 9, 30, 0), MkText(2016, 13, 1, 0, 0, 0)}

\* 0x7FFFFFFF, 0x80000000, 0xFFFFFFFE
LifeValues ==
    {U32OfInt(0), U32OfInt(1), U32OfInt(2), U32OfInt(5), U32OfInt(7), U32OfInt(9),
     U32OfInt(1469439000),
     U32(32767, 65535), U32(32768, 0), U32(65535, 65534), UINT32_MAX}

\* time differences of 1 second, 1 day and 2^31 seconds
Diffs == {U32OfInt(1), U32OfInt(86400), U32(32768, 0)}

\* days since the epoch of 1970-01-01, 1970-03-01, 1971-01-01, 1972-02-29,
\* 2000-02-29, 2038-01-19, 2100-02-28 and 2106-02-07
DayAnchors == {0, 59, 365, 789, 11016, 24855, 47540, 49710}

FormatDays ==
    {d \in UNION {(a - DayWindow)..(a + DayWindow) : a \in DayAnchors} :
        d >= 0 /\ d <= 49710}

FormatSecs == {0, 1, 59, 60, 3599, 3600, 23295, 23296, 43200, 86399}

\* the uint32_t values formatted: seconds of interest on days of interest,
\* below 2^32 = 49710 days and 23296 seconds, and the values the tests name
FormatValues ==
    UNION {{U32OfTimeT(TimeT(d, s)) :
               s \in {x \in FormatSecs : d < 49710 \/ x < 23296}} :
           d \in FormatDays}
    \cup {U32OfInt(0), U32OfInt(1), U32OfInt(1000000), U32OfInt(1469439000),
          U32OfInt(1500000000), U32(65535, 65534), UINT32_MAX}

FoldValues ==
    {U32OfInt(1), U32OfInt(2), U32OfInt(1469439000), U32(32767, 65535),
     U32(32768, 0), U32(65535, 65534), UINT32_MAX}

(***************************************************************************)
(* States and operations                                                   *)
(***************************************************************************)
NoRet == "none"

\* before any constructor ran, with the text s at hand
Start(s) ==
    /\ str = s
    /\ m_timestamp = NoTimestamp
    /\ thrown = FALSE
    /\ ret = NoRet
    /\ rhs_str = <<>>
    /\ rhs = NoTimestamp
    /\ min_acc = min_op_start_value
    /\ max_acc = max_op_start_value
    /\ folded = <<>>
    /\ last_op = "none"
    /\ n_ops = 0

Unconstructed == m_timestamp = NoTimestamp /\ ~thrown

\* constexpr Timestamp() noexcept
DefaultCtor ==
    /\ Unconstructed
    /\ m_timestamp' = U32(0, 0)
    /\ last_op' = "Timestamp()"
    /\ UNCHANGED <<str, thrown, ret, rhs_str, rhs, min_acc, max_acc, folded, n_ops>>

\* constexpr Timestamp(T timestamp) noexcept
IntCtorOf(v) ==
    /\ Unconstructed
    /\ m_timestamp' = v
    /\ last_op' = "Timestamp(T)"
    /\ UNCHANGED <<str, thrown, ret, rhs_str, rhs, min_acc, max_acc, folded, n_ops>>

\* explicit Timestamp(const char*), explicit Timestamp(const std::string&)
StringCtor ==
    /\ Unconstructed
    /\ LET r == parse_timestamp(str)
       IN  IF r.threw
           THEN thrown' = TRUE /\ UNCHANGED m_timestamp
           ELSE thrown' = FALSE /\ m_timestamp' = U32OfTimeT(r.value)
    /\ last_op' = "Timestamp(str)"
    /\ UNCHANGED <<str, ret, rhs_str, rhs, min_acc, max_acc, folded, n_ops>>

\* a const member: returns r, changes nothing of the instance
ConstMember(name, r) ==
    /\ m_timestamp # NoTimestamp
    /\ ret' = r
    /\ rhs_str' = <<>>
    /\ rhs' = NoTimestamp
    /\ last_op' = name
    /\ UNCHANGED <<str, m_timestamp, thrown, min_acc, max_acc, folded, n_ops>>

Valid == ConstMember("valid", valid(m_timestamp))

OperatorBool == ConstMember("bool", m_timestamp # U32(0, 0))

SecondsSinceEpoch == ConstMember("seconds_since_epoch", TimeTOfU32(m_timestamp))

OperatorU32 == ConstMember("uint32_t", m_timestamp)

OperatorU64 == ConstMember("uint64_t", m_timestamp)

OperatorTimeT == ConstMember("time_t", TimeTOfU32(m_timestamp))

\* faulty variant: to_iso() that leaves the instance invalid
ToIso_Resets ==
    /\ m_timestamp # NoTimestamp
    /\ ret' = to_iso(m_timestamp)
    /\ m_timestamp' = [hi |-> 0, lo |-> 0]
    /\ rhs_str' = <<>>
    /\ rhs' = NoTimestamp
    /\ last_op' = "to_iso"
    /\ UNCHANGED <<str, thrown, min_acc, max_acc, folded, n_ops>>

ToIso == ConstMember("to_iso", to_iso(m_timestamp))

\* void operator+=(T time_difference) noexcept
PlusAssign ==
    /\ m_timestamp # NoTimestamp
    /\ n_ops < MaxOps
    /\ \E d \in Diffs : m_timestamp' = U32Add(m_timestamp, d)
    /\ n_ops' = n_ops + 1
    /\ ret' = NoRet
    /\ rhs_str' = <<>>
    /\ rhs' = NoTimestamp
    /\ last_op' = "+="
    /\ UNCHANGED <<str, thrown, min_acc, max_acc, folded>>

\* void operator-=(T time_difference) noexcept
MinusAssign ==
    /\ m_timestamp # NoTimestamp
    /\ n_ops < MaxOps
    /\ \E d \in Diffs : m_timestamp' = U32Sub(m_timestamp, d)
    /\ n_ops' = n_ops + 1
    /\ ret' = NoRet
    /\ rhs_str' = <<>>
    /\ rhs' = NoTimestamp
    /\ last_op' = "-="
    /\ UNCHANGED <<str, thrown, min_acc, max_acc, folded>>

\* Timestamp& operator=(const Timestamp&) and operator=(Timestamp&&), which the
\* class does not declare and the compiler therefore provides: t = Timestamp(v)
\* and t = Timestamp() (v = 0) give the instance the value of the right-hand side
AssignTimestamp ==
    /\ m_timestamp # NoTimestamp
    /\ \E v \in LifeValues : m_timestamp' = v /\ rhs' = v
    /\ ret' = NoRet
    /\ rhs_str' = <<>>
    /\ last_op' = "="
    /\ UNCHANGED <<str, thrown, min_acc, max_acc, folded, n_ops>>

\* t = v for an integer v: the constructor Timestamp(T) is not explicit, so
\* the right-hand side converts to a Timestamp, which is then assigned
AssignInt ==
    /\ m_timestamp # NoTimestamp
    /\ \E v \in LifeValues : m_timestamp' = U32(v.hi, v.lo) /\ rhs' = U32(v.hi, v.lo)
    /\ ret' = NoRet
    /\ rhs_str' = <<>>
    /\ last_op' = "=(T)"
    /\ UNCHANGED <<str, thrown, min_acc, max_acc, folded, n_ops>>

\* t = Timestamp(b) for a text b: when the constructor of the right-hand side
\* throws, nothing is assigned
AssignText ==
    /\ m_timestamp # NoTimestamp
    /\ \E b \in LifeTexts :
          LET r == parse_timestamp(b)
          IN  /\ rhs_str' = b
              /\ IF r.threw
                 THEN /\ thrown' = TRUE
                      /\ rhs' = NoTimestamp
                      /\ last_op' = "Timestamp(rhs) threw"
                      /\ UNCHANGED m_timestamp
                 ELSE /\ thrown' = FALSE
                      /\ rhs' = U32OfTimeT(r.value)
                      /\ last_op' = "=(str)"
                      /\ m_timestamp' = U32OfTimeT(r.value)
    /\ ret' = NoRet
    /\ UNCHANGED <<str, min_acc, max_acc, folded, n_ops>>

\* the six comparison operators on (*this, b)
CompareWith(b) ==
    /\ m_timestamp # NoTimestamp
    /\ rhs' = b
    /\ rhs_str' = <<>>
    /\ ret' = comparisons(m_timestamp, b)
    /\ last_op' = "compare"
    /\ UNCHANGED <<str, m_timestamp, thrown, min_acc, max_acc, folded, n_ops>>

\* the comparison with a sentinel or another value
Compare == \E b \in {start_of_time, end_of_time, U32OfInt(0), U32OfInt(1469439000)} :
               CompareWith(b)

\* the six comparison operators on (*this, Timestamp(b)), where the
\* constructor of the right-hand side may throw
CompareWithText(b) ==
    /\ m_timestamp # NoTimestamp
    /\ rhs_str' = b
    /\ LET r == parse_timestamp(b)
       IN  IF r.threw
           THEN /\ thrown' = TRUE
                /\ rhs' = NoTimestamp
                /\ ret' = NoRet
                /\ last_op' = "Timestamp(rhs) threw"
           ELSE /\ thrown' = FALSE
                /\ rhs' = U32OfTimeT(r.value)
                /\ ret' = comparisons(m_timestamp, U32OfTimeT(r.value))
                /\ last_op' = "compare"
    /\ UNCHANGED <<str, m_timestamp, min_acc, max_acc, folded, n_ops>>

\* Timestamp(b) for another accepted text b, compared with the instance
CompareText == \E b \in ChronTexts : CompareWithText(b)

\* Timestamp(t.to_iso()), compared with t
Reparse == last_op = "to_iso" /\ CompareWithText(ret)

\* Timestamp(v) for the values formatted
IntCtorFormat == \E v \in FormatValues : IntCtorOf(v)

\* Timestamp(v) in the life of one instance
IntCtor == \E v \in LifeValues : IntCtorOf(v)

\* one step of a min/max reduction over Timestamps (osmium/util/minmax.hpp:
\* min_op and max_op update their value with std::min and std::max)
Fold ==
    /\ Len(folded) < MaxFold
    /\ \E v \in FoldValues :
          /\ min_acc' = IF op_lt(v, min_acc) THEN v ELSE min_acc
          /\ max_acc' = IF op_lt(max_acc, v) THEN v ELSE max_acc
          /\ folded' = Append(folded, v)
    /\ last_op' = "fold"
    /\ UNCHANGED <<str, m_timestamp, thrown, ret, rhs_str, rhs, n_ops>>

(***************************************************************************)
(* Specifications                                                          *)
(***************************************************************************)
\* the life of one instance: a constructor, then its members
Init == \E s \in LifeTexts : Start(s)

Next ==
    \/ DefaultCtor
    \/ IntCtor
    \/ StringCtor
    \/ Valid
    \/ OperatorBool
    \/ SecondsSinceEpoch
    \/ OperatorU32
    \/ OperatorU64
    \/ OperatorTimeT
    \/ ToIso
    \/ PlusAssign
    \/ MinusAssign
    \/ AssignTimestamp
    \/ AssignInt
    \/ AssignText
    \/ Compare

Spec == Init /\ [][Next]_vars

\* text -> Timestamp -> text
InitParse == \E s \in ParseTexts : Start(s)

NextParse == StringCtor \/ ToIso

SpecParse == InitParse /\ [][NextParse]_vars

\* value -> text -> Timestamp
InitFormat == Start(<<>>)

NextFormat == IntCtorFormat \/ ToIso \/ Reparse

SpecFormat == InitFormat /\ [][NextFormat]_vars

\* two texts, parsed and compared
InitOrder == \E s \in ChronTexts : Start(s)

NextOrder == StringCtor \/ CompareText

SpecOrder == InitOrder /\ [][NextOrder]_vars

\* a min/max reduction from its seeds
InitFold == Start(<<>>)

NextFold == Fold

SpecFold == InitFold /\ [][NextFold]_vars

(***************************************************************************)
(* The calendar as the properties state it, computed on its own: by        *)
(* counting leap years and adding up month lengths, not by the formulas    *)
(* of the code above.                                                      *)
(***************************************************************************)
ClaimDigitPos == {0, 1, 2, 3, 5, 6, 8, 9, 11, 12, 14, 15, 17, 18}

\* DDDD-DD-DDTDD:DD:DDZ in the first 20 characters
ClaimShape(s) ==
    /\ Len(s) >= 20
    /\ \A i \in ClaimDigitPos : s[i + 1] \in 48..57
    /\ s[5] = 45 /\ s[8] = 45 /\ s[11] = 84
    /\ s[14] = 58 /\ s[17] = 58 /\ s[20] = 90

ClaimTwo(s, i) == (s[i + 1] - 48) * 10 + (s[i + 2] - 48)

ClaimFields(s) ==
    [year   |-> ClaimTwo(s, 0) * 100 + ClaimTwo(s, 2),
     month  |-> ClaimTwo(s, 5),
     day    |-> ClaimTwo(s, 8),
     hour   |-> ClaimTwo(s, 11),
     minute |-> ClaimTwo(s, 14),
     second |-> ClaimTwo(s, 17)]

ClaimTable == <<31, 29, 31, 30, 31, 30, 31, 31, 30, 31, 30, 31>>

\* the ranges claim C1 lists
ClaimRanges(f) ==
    /\ f.month \in 1..12
    /\ f.day \in 1..ClaimTable[f.month]
    /\ f.hour \in 0..23
    /\ f.minute \in 0..59
    /\ f.second \in 0..60

ClaimLeap(y) == (y % 4 = 0 /\ y % 100 # 0) \/ y % 400 = 0

ClaimMonthLen(y, m) ==
    IF m = 2 THEN (IF ClaimLeap(y) THEN 29 ELSE 28)
    ELSE IF m \in {4, 6, 9, 11} THEN 30 ELSE 31

\* a date of the calendar, a time of the day
ClaimRealDate(f) ==
    /\ f.month \in 1..12
    /\ f.day \in 1..ClaimMonthLen(f.year, f.month)
    /\ f.hour \in 0..23
    /\ f.minute \in 0..59
    /\ f.second \in 0..59

\* days from 1970-01-01 to the first of January of year y
ClaimDaysToYear(y) ==
    IF y >= 1970
    THEN 365 * (y - 1970) + Cardinality({k \in 1970..(y - 1) : ClaimLeap(k)})
    ELSE 0 - (365 * (1970 - y) + Cardinality({k \in y..1969 : ClaimLeap(k)}))

\* days from the first of January of year y to the first of month m
RECURSIVE ClaimDaysToMonth(_, _)
ClaimDaysToMonth(y, m) ==
    IF m = 1 THEN 0 ELSE ClaimDaysToMonth(y, m - 1) + ClaimMonthLen(y, m - 1)

\* S of claim C2, as whole days and seconds of the day
ClaimEpochSeconds(f) ==
    LET d == ClaimDaysToYear(f.year) + ClaimDaysToMonth(f.year, f.month) + f.day - 1
        s == f.hour * 3600 + f.minute * 60 + f.second
    IN  IF s >= 86400 THEN [days |-> d + 1, secs |-> s - 86400]
                      ELSE [days |-> d, secs |-> s]

ClaimInstant(s) == ClaimEpochSeconds(ClaimFields(s))

\* 0 <= t < 2^32 seconds = 49710 days and 23296 seconds
ClaimRepresentable(t) ==
    t.days >= 0 /\ (t.days < 49710 \/ (t.days = 49710 /\ t.secs < 23296))

\* t modulo 2^32 seconds, by adding or taking away 2^32 seconds at a time
RECURSIVE ClaimMod32(_)
ClaimMod32(t) ==
    IF t.days < 0
    THEN ClaimMod32(IF t.secs + 23296 >= 86400
                    THEN [days |-> t.days + 49711, secs |-> t.secs + 23296 - 86400]
                    ELSE [days |-> t.days + 49710, secs |-> t.secs + 23296])
    ELSE IF ClaimRepresentable(t) THEN t
    ELSE ClaimMod32(IF t.secs >= 23296
                    THEN [days |-> t.days - 49710, secs |-> t.secs - 23296]
                    ELSE [days |-> t.days - 49711, secs |-> t.secs - 23296 + 86400])

ClaimTimeLE(a, b) == a.days < b.days \/ (a.days = b.days /\ a.secs <= b.secs)

\* the order of uint32_t values
ClaimValueLE(a, b) == a.hi < b.hi \/ (a.hi = b.hi /\ a.lo <= b.lo)

RECURSIVE ClaimLexLE(_, _)
ClaimLexLE(a, b) ==
    \/ a = <<>>
    \/ Head(a) < Head(b)
    \/ (Head(a) = Head(b) /\ ClaimLexLE(Tail(a), Tail(b)))

ClaimTuple(f) == <<f.year, f.month, f.day, f.hour, f.minute, f.second>>

Constructed == last_op # "none" /\ ~thrown /\ m_timestamp # NoTimestamp

(***************************************************************************)
(* Properties                                                              *)
(***************************************************************************)

\* C1, as stated: the parser accepts a text exactly when its first 20
\* characters have the shape DDDD-DD-DDTDD:DD:DDZ and month, day (against the
\* table with 29 for February), hour, minute and second (0..60) are in range;
\* otherwise it throws and no Timestamp comes to be.
C1_Original ==
    last_op # "none" =>
        /\ ~thrown <=> (ClaimShape(str) /\ ClaimRanges(ClaimFields(str)))
        /\ thrown <=> m_timestamp = NoTimestamp

\* C1, amended: as C1, and the year is 1900 or later (tm_year >= 0): a text
\* of the right shape and ranges with a year 0000..1899 is rejected too.
C1_ParserAcceptsExactly ==
    last_op # "none" =>
        /\ ~thrown <=> /\ ClaimShape(str)
                       /\ ClaimRanges(ClaimFields(str))
                       /\ ClaimFields(str).year >= 1900
        /\ thrown <=> m_timestamp = NoTimestamp

\* C1's case: February 29 of a year that is no leap year, second 60, accepted
C1_Witness ==
    /\ last_op = "Timestamp(str)"
    /\ str = MkText(2015, 2, 29, 23, 59, 60)
    /\ ~thrown
    /\ m_timestamp # NoTimestamp

\* C2: the Timestamp of an accepted text holds S mod 2^32, S being the
\* seconds from the epoch to the six fields by the leap-year-aware calendar
\* with no leap seconds; "2016-07-25T09:30:00Z" gives 1469439000 and
\* "1970-01-01T00:00:01Z" gives 1 = start_of_time().
C2_ParsedValueIsEpochSeconds ==
    Constructed =>
        /\ TimeTOfU32(m_timestamp) = ClaimMod32(ClaimInstant(str))
        /\ m_timestamp.hi \in 0..65535 /\ m_timestamp.lo \in 0..65535
        /\ str = MkText(2016, 7, 25, 9, 30, 0) =>
               m_timestamp = [hi |-> 22421, lo |-> 56344]
        /\ str = MkText(1970, 1, 1, 0, 0, 1) =>
               m_timestamp = [hi |-> 0, lo |-> 1] /\ op_eq(m_timestamp, start_of_time)

\* C2's case: a date past 2106, whose S does not fit and wraps
C2_Witness ==
    /\ last_op = "Timestamp(str)"
    /\ str = MkText(2107, 1, 1, 0, 0, 0)
    /\ ~thrown
    /\ ~ClaimRepresentable(ClaimInstant(str))
    /\ TimeTOfU32(m_timestamp) = ClaimMod32(ClaimInstant(str))

\* C3: to_iso() of 0 is the empty string; of any other value it is exactly
\* 20 characters of the shape YYYY-MM-DDTHH:MM:SSZ that name the date of the
\* calendar and time of day which lie that many seconds after the epoch.
C3_ToIsoIsCalendarText ==
    last_op = "to_iso" =>
        IF m_timestamp = [hi |-> 0, lo |-> 0]
        THEN ret = <<>>
        ELSE /\ Len(ret) = 20
             /\ ClaimShape(ret)
             /\ ClaimRealDate(ClaimFields(ret))
             /\ ClaimInstant(ret) = TimeTOfU32(m_timestamp)

\* C3's case: the largest value, formatted
C3_Witness ==
    /\ last_op = "to_iso"
    /\ m_timestamp = [hi |-> 65535, lo |-> 65535]
    /\ ret = MkText(2106, 2, 7, 6, 28, 15)

\* C4: for every value v other than 0, parsing Timestamp(v).to_iso() does
\* not throw and gives a Timestamp equal to Timestamp(v).
C4_ValueRoundTrip ==
    (last_op \in {"compare", "Timestamp(rhs) threw"} /\ valid(m_timestamp)) =>
        /\ ~thrown
        /\ last_op = "compare"
        /\ ret.eq
        /\ rhs = m_timestamp

\* C4's case: 0xFFFFFFFE formatted, parsed again and found equal
C4_Witness ==
    /\ last_op = "compare"
    /\ m_timestamp = [hi |-> 65535, lo |-> 65534]
    /\ rhs_str = MkText(2106, 2, 7, 6, 28, 14)
    /\ ret.eq

\* C5, as stated: for every text s the parser accepts, Timestamp(s).to_iso()
\* is s.
C5_Original == last_op = "to_iso" => ret = str

\* C5, amended: Timestamp(s).to_iso() is s for every accepted text s of
\* exactly 20 characters that names a date of the calendar (the day no
\* larger than the month has in that year) and a second of at most 59, from
\* 1970-01-01T00:00:01Z to 2106-02-07T06:28:15Z.
C5_TextRoundTrip ==
    (/\ last_op = "to_iso"
     /\ Len(str) = 20
     /\ ClaimRealDate(ClaimFields(str))
     /\ ClaimLexLE(<<1970, 1, 1, 0, 0, 1>>, ClaimTuple(ClaimFields(str)))
     /\ ClaimLexLE(ClaimTuple(ClaimFields(str)), <<2106, 2, 7, 6, 28, 15>>))
    => ret = str

\* C5's case: a leap day, parsed and formatted back
C5_Witness ==
    /\ last_op = "to_iso"
    /\ str = MkText(2016, 2, 29, 23, 59, 59)
    /\ ret = str

\* C6: start_of_time() is 1 and end_of_time() is 0xFFFFFFFF; every valid
\* Timestamp other than start_of_time() is greater than it, every valid
\* Timestamp other than end_of_time() is less than it, and the invalid
\* Timestamp is less than start_of_time().
C6_SentinelOrdering ==
    /\ start_of_time = [hi |-> 0, lo |-> 1]
    /\ end_of_time = [hi |-> 65535, lo |-> 65535]
    /\ (last_op = "compare" /\ rhs = start_of_time) =>
           /\ (valid(m_timestamp) /\ ret.ne) => ret.gt
           /\ ~valid(m_timestamp) => ret.lt
    /\ (last_op = "compare" /\ rhs = end_of_time) =>
           /\ (valid(m_timestamp) /\ ret.ne) => ret.lt
           /\ ret.le

\* C6's case: 0x80000000 compared with end_of_time()
C6_Witness ==
    /\ last_op = "compare"
    /\ rhs = end_of_time
    /\ m_timestamp = [hi |-> 32768, lo |-> 0]
    /\ ret.lt

\* the comparison operators give one order: exactly one of <, ==, > holds,
\* and !=, <=, >= are their complements
ClaimOneOrder(r) ==
    /\ (r.lt /\ ~r.eq /\ ~r.gt) \/ (~r.lt /\ r.eq /\ ~r.gt) \/ (~r.lt /\ ~r.eq /\ r.gt)
    /\ r.ne = ~r.eq /\ r.le = ~r.gt /\ r.ge = ~r.lt

\* C7, as stated: for accepted texts a, b, c whose instants are in order,
\* Timestamp(a) <= Timestamp(b) <= Timestamp(c) and Timestamp(a) <=
\* Timestamp(c); and exactly one of <, ==, > holds of two Timestamps.
C7_Original ==
    last_op = "compare" =>
        /\ ClaimOneOrder(ret)
        /\ ClaimTimeLE(ClaimInstant(str), ClaimInstant(rhs_str)) =>
               /\ ret.le
               /\ \A c \in ChronTexts :
                      ClaimTimeLE(ClaimInstant(rhs_str), ClaimInstant(c)) =>
                          /\ op_le(rhs, TimestampOf(c))
                          /\ op_le(m_timestamp, TimestampOf(c))

\* C7, amended: the same for accepted texts whose instants lie from
\* 1970-01-01T00:00:00Z to 2106-02-07T06:28:15Z, the seconds a uint32_t holds.
C7_OrderAgreesWithChronology ==
    last_op = "compare" =>
        /\ ClaimOneOrder(ret)
        /\ (/\ ClaimRepresentable(ClaimInstant(str))
            /\ ClaimRepresentable(ClaimInstant(rhs_str))
            /\ ClaimTimeLE(ClaimInstant(str), ClaimInstant(rhs_str))) =>
               /\ ret.le
               /\ \A c \in ChronTexts :
                      (/\ ClaimRepresentable(ClaimInstant(c))
                       /\ ClaimTimeLE(ClaimInstant(rhs_str), ClaimInstant(c))) =>
                          /\ op_le(rhs, TimestampOf(c))
                          /\ op_le(m_timestamp, TimestampOf(c))

\* C7's case: a text before and a text after 2^31 seconds, in order
C7_Witness ==
    /\ last_op = "compare"
    /\ str = MkText(2038, 1, 19, 3, 14, 7)
    /\ rhs_str = MkText(2106, 2, 7, 6, 28, 15)
    /\ ret.lt /\ ret.le

\* C8: a text that is not exactly 20 characters long is rejected.
C8_WrongLengthRejected ==
    (last_op # "none" /\ Len(str) # 20) => thrown

\* C9, as stated: no public operation changes the value of a constructed
\* instance, and a valid instance never becomes invalid.
C9_Original ==
    [][m_timestamp # NoTimestamp =>
          /\ m_timestamp' = m_timestamp
          /\ valid(m_timestamp) => valid(m_timestamp')]_vars

\* C9, amended: no public operation other than operator+=, operator-= and
\* the assignment operator= changes the value of a constructed instance
\* (+= and -= add to it and take from it, modulo 2^32, assignment replaces
\* it; each can make a valid instance invalid).  An assignment whose
\* right-hand side throws while it is constructed changes nothing.
C9_ConstMembersKeepValue ==
    [][(m_timestamp # NoTimestamp
          /\ last_op' \notin {"+=", "-=", "=", "=(T)", "=(str)"}) =>
          m_timestamp' = m_timestamp]_vars

\* C9's case: to_iso() called on a valid instance that += or -= has changed
C9_Witness ==
    /\ last_op = "to_iso"
    /\ valid(m_timestamp)
    /\ n_ops > 0
    /\ Len(ret) = 20

ClaimRange(q) == {q[i] : i \in 1..Len(q)}

\* C10: with the minimum seeded by min_op_start_value (end_of_time()) and
\* the maximum by max_op_start_value (start_of_time()), after folding valid
\* Timestamps the minimum is the smallest and the maximum the largest of
\* those folded, whatever the seeds were.
C10_SeededMinMax ==
    /\ min_op_start_value = [hi |-> 65535, lo |-> 65535]
    /\ max_op_start_value = [hi |-> 0, lo |-> 1]
    /\ folded = <<>> => (min_acc = end_of_time /\ max_acc = start_of_time)
    /\ folded # <<>> =>
           /\ min_acc \in ClaimRange(folded)
           /\ max_acc \in ClaimRange(folded)
           /\ \A v \in ClaimRange(folded) :
                  ClaimValueLE(min_acc, v) /\ ClaimValueLE(v, max_acc)

\* C10's case: both accumulators hold folded values, neither its seed
C10_Witness ==
    /\ Len(folded) >= 2
    /\ min_acc = [hi |-> 0, lo |-> 2]
    /\ max_acc = [hi |-> 65535, lo |-> 65534]

====
